---------------------------- MODULE Spec2Model ----------------------------
(***************************************************************************)
(* ServiceNow MCP server: the HTTP transport entry point (http.ts, kept as *)
(* src/unnamed/part_001), its OAuth bearer middleware (auth.ts) and the    *)
(* authorization-code grant of the token engine mounted at /api/auth.      *)
(*                                                                         *)
(* Node runs the handlers on one event loop: a handler runs without        *)
(* interruption up to its next `await`, and other handlers and timers run  *)
(* while it is suspended.  Every action below is one such uninterrupted    *)
(* run: it starts where a request arrives or an awaited promise settles    *)
(* and ends at the next await or at the response.                          *)
(*                                                                         *)
(* Strings that the code inspects character by character (the session id   *)
(* header, the Authorization header) are sequences of one-character        *)
(* strings.  Time is an abstract tick; the durations of the code are       *)
(* scaled down to ticks (each is only ever compared with the clock).       *)
(***************************************************************************)
EXTENDS Integers, Sequences, FiniteSets, TLC

(***************************************************************************)
(* Bounds of the model.                                                    *)
(***************************************************************************)
NReq == 2        \* requests that can be in flight at once
MaxTime == 2     \* the clock stops here
MaxIds == 2      \* transports constructed / session ids randomUUID yields
MaxTokens == 1   \* access tokens the session requests present
MaxCodes == 1    \* authorization codes issued
MaxMints == 2    \* token exchanges that succeed
MaxVerifier == 1 \* code verifiers 0..MaxVerifier
MaxHops == 3     \* redirects a user agent follows before it gives up
MaxClients == 2  \* clients registered
NCalls == 2      \* calls of fetchOAuthToken in flight at once
MaxUpTokens == 2 \* tokens ServiceNow issues
MaxExpiresIn == 3 \* expires_in of a ServiceNow token, in ticks
MaxClock == 3    \* the clock of the ServiceNow client stops here

(***************************************************************************)
(* Program constants (durations in ticks).                                 *)
(***************************************************************************)
MAX_SESSIONS == 1
SESSION_TTL_MS == 1
accessTokenExpiresIn == 2
codeExpiresIn == 1
REFRESH_MARGIN == 1
maxAttempts == 30

Restrict(f, S) == [x \in S |-> f[x]]

(***************************************************************************)
(* Character strings.                                                      *)
(***************************************************************************)
Rep(c, n) == [i \in 1..n |-> c]

StartsWith(s, p) == Len(s) >= Len(p) /\ SubSeq(s, 1, Len(p)) = p

\* String.prototype.slice(n): the characters from index n (0-based) on.
Slice(s, n) == IF n >= Len(s) THEN <<>> ELSE SubSeq(s, n + 1, Len(s))

HexLower == {"0", "1", "2", "3", "4", "5", "6", "7", "8", "9",
             "a", "b", "c", "d", "e", "f"}
HexUpper == {"A", "B", "C", "D", "E", "F"}
\* [0-9a-f] under the regex's i flag
HexChar == HexLower \cup HexUpper

UuidShape(c, ver, var) ==
    Rep(c, 8) \o <<"-">> \o Rep(c, 4) \o <<"-", ver>> \o Rep(c, 3)
      \o <<"-", var>> \o Rep(c, 3) \o <<"-">> \o Rep(c, 12)

IdDigit == <<"a", "b", "c", "d", "e", "f">>

\* (a generator that returns one value every time)
randomUUIDSame(i) == UuidShape("a", "4", "a")

\* The i-th value randomUUID() returns: a version 4 UUID, lower case, and
\* different from every value it returned before.
randomUUID(i) == UuidShape(IdDigit[i], "4", "a")

\* UUID_RE.test(id)
isValidSessionId(id) ==
    /\ Len(id) = 36
    /\ \A i \in 1..36 :
         CASE i \in {9, 14, 19, 24} -> id[i] = "-"
           [] i = 15 -> id[i] = "4"
           [] i = 20 -> id[i] \in {"8", "9", "a", "b", "A", "B"}
           [] OTHER -> id[i] \in HexChar

(***************************************************************************)
(* A request header: absent (undefined in req.headers) or a string.        *)
(***************************************************************************)
Absent == [present |-> FALSE, v |-> <<>>]
Hdr(s) == [present |-> TRUE, v |-> s]

\* JavaScript truthiness of a `string | undefined`: undefined and '' are falsy.
Truthy(h) == h.present /\ Len(h.v) > 0

(***************************************************************************)
(* The mcp-session-id header values a request may carry: absent, the empty *)
(* string, a UUID of version 1, and every value randomUUID can return      *)
(* (issued or not).                                                        *)
(***************************************************************************)
SessionIds == {randomUUID(i) : i \in 1..MaxIds}

SidHeaders ==
    {Absent, Hdr(<<>>), Hdr(UuidShape("a", "1", "a"))}
      \cup {Hdr(s) : s \in SessionIds}

(***************************************************************************)
(* The Authorization header values a request may carry: absent, another    *)
(* scheme, the scheme in lower case, the scheme without the space, and     *)
(* "Bearer " followed by each token value (issued or not).                 *)
(***************************************************************************)
TokenDigit == <<"1", "2", "3", "4", "5", "6">>
TokenChars(k) == <<"t", TokenDigit[k]>>
Tokens == {TokenChars(k) : k \in 1..MaxTokens}

BearerSp == <<"B", "e", "a", "r", "e", "r", " ">>

AuthHeaders ==
    {Absent,
     Hdr(<<"B", "a", "s", "i", "c", " ">> \o TokenChars(1)),
     Hdr(<<"b", "e", "a", "r", "e", "r", " ">> \o TokenChars(1)),
     Hdr(<<"B", "e", "a", "r", "e", "r">> \o TokenChars(1))}
      \cup {Hdr(BearerSp \o t) : t \in Tokens}
      \cup {Hdr(BearerSp \o TokenChars(MaxTokens + 1))}

(***************************************************************************)
(* State.                                                                  *)
(*   now                Date.now()                                         *)
(*   transports         the Map session id -> transport (an index of trans)*)
(*   sessionLastAccess  the Map session id -> time of the last access      *)
(*   trans              the StreamableHTTPServerTransport objects built so *)
(*                      far: their sessionId ('' while undefined) and      *)
(*                      whether close() was called on them                 *)
(*   nextId             how many values randomUUID has returned, plus one  *)
(*   req                the requests in flight, one record per slot        *)
(*   oauthAccessToken   the oauthAccessToken table, by accessToken         *)
(*   appLocalsAuth      req.app.locals.auth, one object for the whole app  *)
(*   lastReq            (history) when the last request for a session in   *)
(*                      `transports` reached its route handler             *)
(*   oauthAuthorizationCode  the oauthAuthorizationCode table, by code     *)
(*   tokenResp          the token endpoint's answer to the exchange just   *)
(*                      made, with the parameters it was made with         *)
(*   redeemed           (history) how many exchanges of a code succeeded   *)
(*   shutdown           where gracefulShutdown stands: "running" before a  *)
(*                      signal, "stopping" at its await, "exited" after    *)
(*                      process.exit                                       *)
(*   requiredScopes     the requiredScopes option the middleware was built *)
(*                      with                                               *)
(*   agent              a user agent in the authorize flow: where its      *)
(*                      request stands, the query string it carries, the   *)
(*                      session cookie it holds and the last answer        *)
(*   user               the row of the user table for the demo e-mail      *)
(*                      address: "none", "demo" (created by ensureDemoUser *)
(*                      with DEMO_PASSWORD) or "other" (another password)  *)
(*   demoUserCreated    the module variable of that name                   *)
(*   peer               a second user agent, whose GET /sign-in is handled *)
(*                      while the first one's is in flight                 *)
(*   oauthApplication   the oauthApplication table, by clientId            *)
(*   regResp            the registration endpoint's answer to the request  *)
(*                      just made, with the body it was made with          *)
(*   aborted            the slots whose client went away while its request *)
(*                      was in flight                                      *)
(*   snowAccessToken    the module variable oauthAccessToken of            *)
(*                      observability.ts,                                  *)
(*                      the cached ServiceNow token: 0 for '', else the    *)
(*                      index of the token in issued                       *)
(*   oauthTokenExpiry   the module variable of that name                   *)
(*   issued             (history) the tokens ServiceNow issued: when each  *)
(*                      was requested and its expires_in                   *)
(*   calls              the calls of fetchOAuthToken in flight             *)
(*   flow               a call of the execute_flow tool: where its handler *)
(*                      stands, its wait_for_completion argument, the loop *)
(*                      counter i, the polls sent and the result returned  *)
(***************************************************************************)
VARIABLES now, transports, sessionLastAccess, trans, nextId, req,
          oauthAccessToken, appLocalsAuth, lastReq,
          oauthAuthorizationCode, tokenResp, redeemed,
          shutdown, requiredScopes,
          agent, user, demoUserCreated, peer,
          oauthApplication, regResp,
          aborted,
          snowAccessToken, oauthTokenExpiry, issued, calls,
          flow

sessionVars == <<transports, sessionLastAccess, trans, nextId, lastReq>>
codeVars == <<oauthAuthorizationCode, tokenResp, redeemed>>
procVars == <<shutdown, requiredScopes>>
signVars == <<agent, user, demoUserCreated, peer>>
regVars == <<oauthApplication, regResp>>
connVars == <<aborted>>
upVars == <<snowAccessToken, oauthTokenExpiry, issued, calls>>
flowVars == <<flow>>
vars == <<now, transports, sessionLastAccess, trans, nextId, req,
          oauthAccessToken, appLocalsAuth, lastReq,
          oauthAuthorizationCode, tokenResp, redeemed,
          shutdown, requiredScopes, agent, user, demoUserCreated, peer,
          oauthApplication, regResp,
          aborted,
          snowAccessToken, oauthTokenExpiry, issued, calls,
          flow>>

Slots == 1..NReq
Methods == {"POST", "GET", "DELETE"}
\* req.body after express.json(): an initialize request, or another message
Bodies == {"initialize", "other"}

NoWww == [error |-> "", description |-> "", scope |-> <<>>, resource_metadata |-> ""]

\* A request: where it stands (pc), what the code read from it (method, auth,
\* sid, body), what it answered (status, www), whether next() ran its route
\* handler (handled), the transport it is bound to (tr), how often its handler
\* ran evictStaleSessions (sweeps), the await it was in when it was answered
\* (from), and whether the record still shows the step just taken (fresh).
IdleReq ==
    [pc |-> "idle", method |-> "", auth |-> Absent, sid |-> Absent, body |-> "",
     status |-> 0, www |-> NoWww, handled |-> FALSE, tr |-> 0, sweeps |-> 0,
     from |-> "", fresh |-> FALSE]

NoAuth == [token |-> <<>>, clientId |-> "", scopes |-> <<>>, expiresAt |-> 0]

Size(m) == Cardinality(DOMAIN m)

\* Map.prototype.set / delete
MapSet(m, k, v) == [x \in DOMAIN m \cup {k} |-> IF x = k THEN v ELSE m[x]]
MapDelete(m, k) == Restrict(m, DOMAIN m \ {k})

(***************************************************************************)
(* evictStaleSessions(): the sessions it finds stale at time t, the two    *)
(* maps after it, and the transports it closed.  transport.close() runs    *)
(* the transport's onclose, which deletes the same session id from both    *)
(* maps before the sweep deletes it again.                                 *)
(***************************************************************************)
StaleSessions(la, t) == {sid \in DOMAIN la : la[sid] < t - SESSION_TTL_MS}

EvictedTransports(tp, la, t) == Restrict(tp, DOMAIN tp \ StaleSessions(la, t))

EvictedLastAccess(la, t) == Restrict(la, DOMAIN la \ StaleSessions(la, t))

EvictClosed(tp, la, t) == {tp[sid] : sid \in StaleSessions(la, t) \cap DOMAIN tp}

\* transport.close() on each transport of K
CloseAll(tr, K) ==
    [k \in DOMAIN tr |-> IF k \in K THEN [tr[k] EXCEPT !.closed = TRUE] ELSE tr[k]]

\* (a cap check that lets the count reach MAX_SESSIONS + 1)
OverCapStrict(n) == n > MAX_SESSIONS

\* transports.size >= MAX_SESSIONS
OverCap(n) == n >= MAX_SESSIONS

(***************************************************************************)
(* auth.ts: token verification and the bearer middleware.                  *)
(***************************************************************************)
\* The scopes the mcp plugin grants (defaultScope), as stored in the TEXT column
OpenId == <<"o", "p", "e", "n", "i", "d">>

\* String.prototype.split(' ')
RECURSIVE SplitFrom(_, _, _)
SplitFrom(s, i, cur) ==
    IF i > Len(s) THEN <<cur>>
    ELSE IF s[i] = " " THEN <<cur>> \o SplitFrom(s, i + 1, <<>>)
    ELSE SplitFrom(s, i + 1, Append(cur, s[i]))
Split(s) == SplitFrom(s, 1, <<>>)

\* What a.api.getMcpSession({headers}) can resolve to for "Bearer <token>":
\* the oauthAccessToken row of the token, or null when there is none.  The
\* call is the plugin's; for a row past its accessTokenExpiresAt the source
\* relies on nothing, so both answers are possible.
NoSession == [found |-> FALSE, clientId |-> "", scopes |-> <<>>, accessTokenExpiresAt |-> 0]
getMcpSession(token) ==
    IF token \notin DOMAIN oauthAccessToken THEN {NoSession}
    ELSE LET row == oauthAccessToken[token]
             hit == [found |-> TRUE, clientId |-> row.clientId, scopes |-> row.scopes,
                     accessTokenExpiresAt |-> row.expiresAt]
         IN IF now < row.expiresAt THEN {hit} ELSE {hit, NoSession}

\* verifyAccessToken(token): throws Error('Invalid token') or returns authInfo
verifyAccessToken(token) ==
    {IF ~s.found THEN [ok |-> FALSE, msg |-> "Invalid token", info |-> NoAuth]
     ELSE [ok |-> TRUE, msg |-> "",
           info |-> [token |-> token, clientId |-> s.clientId,
                     scopes |-> Split(s.scopes), expiresAt |-> s.accessTokenExpiresAt]]
       : s \in getMcpSession(token)}

\* (a challenge that leaves the resource_metadata part out)
buildWwwAuthNoMetadata(scopes, resourceMetadataUrl, code, message) ==
    [error |-> code, description |-> message,
     scope |-> IF Len(scopes) > 0 THEN scopes ELSE <<>>,
     resource_metadata |-> ""]

\* buildWwwAuth(code, message) of a middleware built with these options
\* (the header's parts; an absent part is empty)
buildWwwAuth(scopes, resourceMetadataUrl, code, message) ==
    [error |-> code, description |-> message,
     scope |-> IF Len(scopes) > 0 THEN scopes ELSE <<>>,
     resource_metadata |-> IF resourceMetadataUrl # "" THEN resourceMetadataUrl ELSE ""]

\* authMiddleware = requireBearerAuth({resourceMetadataUrl: <PRM endpoint>})
PrmUrl == "/.well-known/oauth-protected-resource/mcp"
authRequiredScopes == <<>>
authResourceMetadataUrl == PrmUrl

\* authHeader?.startsWith('Bearer ')
HasBearer(h) == h.present /\ StartsWith(h.v, BearerSp)

\* (a check that is content with one of the required scopes)
ScopesCoveredSome(required, granted) ==
    \E i \in 1..Len(required) : \E j \in 1..Len(granted) : granted[j] = required[i]

\* requiredScopes.every(s => authInfo.scopes.includes(s))
ScopesCovered(required, granted) ==
    \A i \in 1..Len(required) : \E j \in 1..Len(granted) : granted[j] = required[i]

\* No token exchange was just answered
\* A query string: for each parameter the values it was sent with, in
\* order (none when the parameter is missing).  A value is a sequence of
\* pieces, empty for the empty string.
NoQuery == [client_id |-> <<>>, redirect_uri |-> <<>>, state |-> <<>>,
            code_challenge |-> <<>>]

IdleAgent == [at |-> "idle", query |-> NoQuery, orig |-> NoQuery, first |-> "",
              cookie |-> FALSE, hops |-> 0, signIns |-> 0, status |-> 0,
              location |-> "", code |-> "", state |-> <<>>]

NoReg == [status |-> 0, client_id |-> "", redirect_uris |-> <<>>,
          body |-> [redirect_uris |-> <<>>, grant_types |-> <<>>]]

Callers == 1..NCalls
IdleCall == [pc |-> "idle", now |-> 0, token |-> 0, cached |-> FALSE, at |-> 0]

IdleFlow == [pc |-> "idle", wait_for_completion |-> FALSE, context_id |-> FALSE,
             i |-> 0, polls |-> 0, state |-> "", result |-> "", isError |-> FALSE]

NoResp ==
    [status |-> 0, error |-> "", code |-> "", client_id |-> "", redirect_uri |-> "",
     code_verifier |-> 0, access_token |-> <<>>, refresh_token |-> <<>>]

(***************************************************************************)
(* Init: the module state after http.ts and auth.ts were loaded.           *)
(* InitExcept leaves the options of the middleware open.                   *)
(***************************************************************************)
InitExcept ==
    /\ now = 0
    /\ transports = <<>>
    /\ sessionLastAccess = <<>>
    /\ trans = <<>>
    /\ nextId = 1
    /\ req = [r \in Slots |-> IdleReq]
    /\ oauthAccessToken = <<>>
    /\ appLocalsAuth = NoAuth
    /\ lastReq = <<>>
    /\ oauthAuthorizationCode = <<>>
    /\ tokenResp = NoResp
    /\ redeemed = <<>>
    /\ shutdown = "running"
    /\ agent = IdleAgent
    /\ user = "none"
    /\ demoUserCreated = FALSE
    /\ peer = IdleAgent
    /\ oauthApplication = <<>>
    /\ regResp = NoReg
    /\ aborted = {}
    /\ snowAccessToken = 0
    /\ oauthTokenExpiry = 0
    /\ issued = <<>>
    /\ calls = [c \in Callers |-> IdleCall]
    /\ flow = IdleFlow

Init == InitExcept /\ requiredScopes = authRequiredScopes

\* res.status(code): the request is answered
Respond(q, code) ==
    [q EXCEPT !.pc = "done", !.status = code, !.from = q.pc, !.fresh = TRUE]

\* (every request is handed the first transport)
AwaitFirst(q, pc, tr) ==
    [q EXCEPT !.pc = pc, !.tr = 1, !.from = q.pc, !.fresh = TRUE]

\* The request goes on to an await
Await(q, pc, tr) == [q EXCEPT !.pc = pc, !.tr = tr, !.from = q.pc, !.fresh = TRUE]

\* A fresh record shows what the step just taken read and answered.  The
\* record is put away (Recycle) before the event loop takes its next event:
\* an answered request frees its slot, a suspended one keeps what the code
\* still holds of it.
Quiet == shutdown # "exited" /\ tokenResp = NoResp /\ \A r \in Slots : ~req[r].fresh

\* Slots are interchangeable: a request takes the first free one.
FirstIdle(r) == req[r].pc = "idle" /\ \A x \in 1..(r - 1) : req[x].pc # "idle"

(***************************************************************************)
(* A request for /mcp reaches authMiddleware (requireBearerAuth's closure, *)
(* up to its first await).                                                 *)
(***************************************************************************)
\* (a rejection without the `return`: next() still runs)
RejectFallThrough(r, q, code, www) ==
    /\ req' = [req EXCEPT ![r] = [Respond(q, code) EXCEPT !.www = www, !.handled = TRUE]]
    /\ UNCHANGED <<sessionVars, appLocalsAuth>>

\* res.set('WWW-Authenticate', ...); res.status(code).json(...); return
Reject(r, q, code, www) ==
    /\ req' = [req EXCEPT ![r] = [Respond(q, code) EXCEPT !.www = www]]
    /\ UNCHANGED <<sessionVars, appLocalsAuth>>

Arrive(r) ==
    /\ Quiet
    /\ FirstIdle(r)
    /\ \E m \in Methods, h \in AuthHeaders :
         LET q == [IdleReq EXCEPT !.method = m, !.auth = h]
         IN IF ~HasBearer(h)
            THEN Reject(r, q, 401,
                        buildWwwAuth(requiredScopes, authResourceMetadataUrl,
                                     "invalid_token", "Missing Authorization header"))
            ELSE /\ req' = [req EXCEPT ![r] = [q EXCEPT !.pc = "verifying"]]
                 /\ UNCHANGED <<sessionVars, appLocalsAuth>>
    /\ UNCHANGED <<now, oauthAccessToken, codeVars, procVars, flowVars, upVars, connVars, regVars, signVars>>

(***************************************************************************)
(* The route handlers, from next() to their first await or their response. *)
(* q is the request's record, sid its mcp-session-id header and body its   *)
(* parsed body.                                                            *)
(***************************************************************************)
\* (a delegation that leaves the last-access time as it was)
PostExistingNoTouch(r, q, sid) ==
    /\ lastReq' = MapSet(lastReq, sid.v, now)
    /\ req' = [req EXCEPT ![r] = Await(q, "delegated", transports[sid.v])]
    /\ UNCHANGED <<transports, sessionLastAccess, trans, nextId>>

\* app.post('/mcp'): an existing session, delegated to its transport
PostExisting(r, q, sid) ==
    /\ sessionLastAccess' = MapSet(sessionLastAccess, sid.v, now)
    /\ lastReq' = MapSet(lastReq, sid.v, now)
    /\ req' = [req EXCEPT ![r] = Await(q, "delegated", transports[sid.v])]
    /\ UNCHANGED <<transports, trans, nextId>>

\* app.post('/mcp'): the session cap, then a new transport + server pair
PostInitialize(r, q) ==
    LET over == OverCap(Size(transports))
        tp == IF over THEN EvictedTransports(transports, sessionLastAccess, now)
              ELSE transports
        la == IF over THEN EvictedLastAccess(sessionLastAccess, now)
              ELSE sessionLastAccess
        closed == IF over THEN EvictClosed(transports, sessionLastAccess, now) ELSE {}
        swept == [q EXCEPT !.sweeps = IF over THEN 1 ELSE 0]
    IN /\ transports' = tp
       /\ sessionLastAccess' = la
       /\ lastReq' = Restrict(lastReq, DOMAIN tp)
       /\ nextId' = nextId
       /\ IF over /\ OverCap(Size(tp))
          THEN /\ trans' = CloseAll(trans, closed)
               /\ req' = [req EXCEPT ![r] = Respond(swept, 503)]
          ELSE /\ trans' = Append(CloseAll(trans, closed),
                                  [sessionId |-> <<>>, closed |-> FALSE])
               /\ req' = [req EXCEPT ![r] =
                            Await(swept, "initializing", Len(trans) + 1)]

\* (a POST handler without the isInitializeRequest check)
PostHandlerAnyBody(r, q, sid, body) ==
    IF Truthy(sid) /\ ~isValidSessionId(sid.v)
    THEN /\ req' = [req EXCEPT ![r] = Respond(q, 400)]
         /\ UNCHANGED sessionVars
    ELSE IF Truthy(sid) /\ sid.v \in DOMAIN transports
    THEN PostExisting(r, q, sid)
    ELSE PostInitialize(r, q)

PostHandler(r, q, sid, body) ==
    IF Truthy(sid) /\ ~isValidSessionId(sid.v)
    THEN /\ req' = [req EXCEPT ![r] = Respond(q, 400)]
         /\ UNCHANGED sessionVars
    ELSE IF Truthy(sid) /\ sid.v \in DOMAIN transports
    THEN PostExisting(r, q, sid)
    ELSE IF body # "initialize"
    THEN /\ req' = [req EXCEPT ![r] = Respond(q, 400)]
         /\ UNCHANGED sessionVars
    ELSE PostInitialize(r, q)

\* app.get('/mcp')
GetHandler(r, q, sid) ==
    IF ~Truthy(sid) \/ ~isValidSessionId(sid.v) \/ sid.v \notin DOMAIN transports
    THEN /\ req' = [req EXCEPT ![r] = Respond(q, 400)]
         /\ UNCHANGED sessionVars
    ELSE /\ sessionLastAccess' = MapSet(sessionLastAccess, sid.v, now)
         /\ lastReq' = MapSet(lastReq, sid.v, now)
         /\ req' = [req EXCEPT ![r] = Await(q, "streaming", transports[sid.v])]
         /\ UNCHANGED <<transports, trans, nextId>>

\* (a DELETE that answers 200 for a session that is not there)
DeleteHandlerIdempotent(r, q, sid) ==
    IF ~Truthy(sid) \/ ~isValidSessionId(sid.v)
    THEN /\ req' = [req EXCEPT ![r] = Respond(q, 400)]
         /\ UNCHANGED sessionVars
    ELSE IF sid.v \notin DOMAIN transports
    THEN /\ req' = [req EXCEPT ![r] = Respond(q, 200)]
         /\ UNCHANGED sessionVars
    ELSE /\ sessionLastAccess' = MapDelete(sessionLastAccess, sid.v)
         /\ lastReq' = MapSet(lastReq, sid.v, now)
         /\ req' = [req EXCEPT ![r] = Await(q, "deleting", transports[sid.v])]
         /\ UNCHANGED <<transports, trans, nextId>>

\* app.delete('/mcp')
DeleteHandler(r, q, sid) ==
    IF ~Truthy(sid) \/ ~isValidSessionId(sid.v) \/ sid.v \notin DOMAIN transports
    THEN /\ req' = [req EXCEPT ![r] = Respond(q, 400)]
         /\ UNCHANGED sessionVars
    ELSE /\ sessionLastAccess' = MapDelete(sessionLastAccess, sid.v)
         /\ lastReq' = MapSet(lastReq, sid.v, now)
         /\ req' = [req EXCEPT ![r] = Await(q, "deleting", transports[sid.v])]
         /\ UNCHANGED <<transports, trans, nextId>>

\* next(): Express calls the route handler of the request's method
RouteHandler(r, q, sid, body) ==
    CASE q.method = "POST" -> PostHandler(r, q, sid, body)
      [] q.method = "GET" -> GetHandler(r, q, sid)
      [] q.method = "DELETE" -> DeleteHandler(r, q, sid)

\* The bodies a request can carry (only POST reads req.body); no initialize
\* once MaxIds transports were built (the bound of the model).
BodiesOf(method) ==
    IF method # "POST" THEN {""}
    ELSE IF Len(trans) < MaxIds THEN Bodies ELSE Bodies \ {"initialize"}

(***************************************************************************)
(* verifyAccessToken settles: the rest of the middleware and, through      *)
(* next(), the route handler up to its first await.  The request's session *)
(* id header and body are read here for the first time.                    *)
(***************************************************************************)
AuthResolve(r) ==
    /\ Quiet
    /\ req[r].pc = "verifying"
    /\ \E res \in verifyAccessToken(Slice(req[r].auth.v, 7)) :
         IF ~res.ok
         THEN Reject(r, req[r], 401,
                     buildWwwAuth(requiredScopes, authResourceMetadataUrl,
                                  "invalid_token", res.msg))
         ELSE IF Len(requiredScopes) > 0
                 /\ ~ScopesCovered(requiredScopes, res.info.scopes)
         THEN Reject(r, req[r], 403,
                     buildWwwAuth(requiredScopes, authResourceMetadataUrl,
                                  "insufficient_scope", "Required"))
         ELSE /\ appLocalsAuth' = res.info
              /\ \E sid \in SidHeaders, body \in BodiesOf(req[r].method) :
                   RouteHandler(r, [req[r] EXCEPT !.handled = TRUE, !.sid = sid,
                                                  !.body = body],
                                sid, body)
    /\ UNCHANGED <<now, oauthAccessToken, codeVars, procVars, flowVars, upVars, connVars, regVars, signVars>>

(***************************************************************************)
(* `await server.connect(transport)` and `await transport.handleRequest`   *)
(* of an initialize request.  The SDK either reaches the initialize        *)
(* message, takes the next randomUUID() as the transport's sessionId and   *)
(* calls onsessioninitialized, or one of the two promises rejects first    *)
(* and the handler's catch answers 500.                                    *)
(***************************************************************************)
InitProgress(r) ==
    /\ Quiet
    /\ req[r].pc = "initializing"
    /\ \E ok \in BOOLEAN :
         IF ok
         THEN LET newSessionId == randomUUID(nextId)
              IN /\ trans' = [trans EXCEPT ![req[r].tr].sessionId = newSessionId]
                 /\ transports' = MapSet(transports, newSessionId, req[r].tr)
                 /\ sessionLastAccess' = MapSet(sessionLastAccess, newSessionId, now)
                 /\ lastReq' = MapSet(lastReq, newSessionId, now)
                 /\ nextId' = nextId + 1
                 /\ req' = [req EXCEPT ![r] = Await(req[r], "initResponding", req[r].tr)]
         ELSE /\ req' = [req EXCEPT ![r] = Respond(req[r], 500)]
              /\ UNCHANGED sessionVars
    /\ UNCHANGED <<now, oauthAccessToken, appLocalsAuth, codeVars, procVars, flowVars, upVars, connVars, regVars, signVars>>

\* transport.handleRequest of the initialize request settles
InitComplete(r) ==
    /\ Quiet
    /\ req[r].pc = "initResponding"
    /\ \E ok \in BOOLEAN :
         req' = [req EXCEPT ![r] = Respond(req[r], IF ok THEN 200 ELSE 500)]
    /\ UNCHANGED <<now, sessionVars, oauthAccessToken, appLocalsAuth, codeVars, procVars, flowVars, upVars, connVars, regVars, signVars>>

\* transport.handleRequest of a POST or GET for an existing session settles
DelegateDone(r) ==
    /\ Quiet
    /\ req[r].pc \in {"delegated", "streaming"}
    /\ \E ok \in BOOLEAN :
         req' = [req EXCEPT ![r] = Respond(req[r], IF ok THEN 200 ELSE 500)]
    /\ UNCHANGED <<now, sessionVars, oauthAccessToken, appLocalsAuth, codeVars, procVars, flowVars, upVars, connVars, regVars, signVars>>

(***************************************************************************)
(* transport.handleRequest of a DELETE settles.  The SDK either accepts    *)
(* the termination and calls transport.close(), whose onclose deletes      *)
(* transport.sessionId from both maps, or it answers an error (or the      *)
(* promise rejects) without closing the transport.                         *)
(***************************************************************************)
DeleteHandled(r) ==
    /\ Quiet
    /\ req[r].pc = "deleting"
    /\ \E ok \in BOOLEAN :
         IF ok
         THEN LET sid == trans[req[r].tr].sessionId
              IN /\ trans' = CloseAll(trans, {req[r].tr})
                 /\ transports' = MapDelete(transports, sid)
                 /\ sessionLastAccess' = MapDelete(sessionLastAccess, sid)
                 /\ lastReq' = MapDelete(lastReq, sid)
                 /\ nextId' = nextId
                 /\ req' = [req EXCEPT ![r] = Respond(req[r], 200)]
         ELSE /\ req' = [req EXCEPT ![r] = Respond(req[r], 500)]
              /\ UNCHANGED sessionVars
    /\ UNCHANGED <<now, oauthAccessToken, appLocalsAuth, codeVars, procVars, flowVars, upVars, connVars, regVars, signVars>>

Recycle(r) ==
    /\ req[r].fresh
    /\ req' = [req EXCEPT ![r] =
                 IF req[r].pc = "done" THEN IdleReq
                 ELSE [req[r] EXCEPT !.sid = Absent, !.body = "", !.sweeps = 0,
                                     !.from = "", !.fresh = FALSE]]
    /\ aborted' = IF req[r].pc = "done" THEN aborted \ {r} ELSE aborted
    /\ UNCHANGED <<now, sessionVars, oauthAccessToken, appLocalsAuth, codeVars, procVars, flowVars, upVars, regVars, signVars>>

\* setInterval(evictStaleSessions, 5 * 60 * 1000) fires
TimerSweep ==
    /\ Quiet
    /\ shutdown = "running"
    /\ transports' = EvictedTransports(transports, sessionLastAccess, now)
    /\ sessionLastAccess' = EvictedLastAccess(sessionLastAccess, now)
    /\ trans' = CloseAll(trans, EvictClosed(transports, sessionLastAccess, now))
    /\ lastReq' = Restrict(lastReq, DOMAIN transports')
    /\ UNCHANGED <<now, nextId, req, oauthAccessToken, appLocalsAuth, codeVars, procVars, flowVars, upVars, connVars, regVars, signVars>>

Tick ==
    /\ Quiet
    /\ now < MaxTime
    /\ now' = now + 1
    /\ UNCHANGED <<sessionVars, req, oauthAccessToken, appLocalsAuth, codeVars, procVars, flowVars, upVars, connVars, regVars, signVars>>

(***************************************************************************)
(* A token exchange at /api/auth/mcp/token succeeded: the plugin stored an *)
(* access token for the client, expiring accessTokenExpiresIn from now.    *)
(***************************************************************************)
ClientIds == {"c1", "c2"}

\* The refresh token paired with access token k
RefreshChars(k) == <<"r", TokenDigit[k]>>

MintAccessToken(table, client, t) ==
    MapSet(table, TokenChars(Size(table) + 1),
           [clientId |-> client, scopes |-> OpenId, expiresAt |-> t + accessTokenExpiresIn,
            refreshToken |-> RefreshChars(Size(table) + 1)])

\* (only tokens whose expiry the clock of the model reaches)
IssueToken ==
    /\ Quiet
    /\ Size(oauthAccessToken) < MaxTokens
    /\ now + accessTokenExpiresIn <= MaxTime
    /\ \E c \in ClientIds : oauthAccessToken' = MintAccessToken(oauthAccessToken, c, now)
    /\ UNCHANGED <<now, sessionVars, req, appLocalsAuth, codeVars, procVars, flowVars, upVars, connVars, regVars, signVars>>

(***************************************************************************)
(* The authorization and token engine mounted at /api/auth/* (the mcp      *)
(* plugin behind auth.handler): code issuance at the authorize endpoint    *)
(* and the authorization_code grant at the token endpoint.                 *)
(***************************************************************************)
RedirectUris == {"u1", "u2"}
Verifiers == 0..MaxVerifier

\* The S256 transform of a code_verifier (SHA-256, base64url), on the model's
\* verifiers: a one-to-one map that fixes none of them.
S256(code_verifier) == (7 * code_verifier + 3) % 11

\* The code_challenge values a client can send: the digest of a verifier, or
\* a verifier as it is.
Challenges == {S256(v) : v \in Verifiers} \cup {0}

CodeName == <<"k1", "k2", "k3", "k4">>
\* The code values a token request can present: those issued, and one that
\* never was.
PresentedCodes == DOMAIN oauthAuthorizationCode \cup {"k0"}

\* Authorize request of a registered client, resource owner signed in: the
\* engine mints a code and stores the challenge verbatim.
Authorize ==
    /\ Quiet
    /\ Size(oauthAuthorizationCode) < MaxCodes
    /\ now + codeExpiresIn <= MaxTime
    /\ \E c \in ClientIds, u \in RedirectUris, ch \in Challenges :
         LET code == CodeName[Size(oauthAuthorizationCode) + 1]
         IN /\ oauthAuthorizationCode' =
                 MapSet(oauthAuthorizationCode, code,
                        [clientId |-> c, redirectURI |-> u, codeChallenge |-> ch,
                         expiresAt |-> now + codeExpiresIn, consumed |-> FALSE])
            /\ redeemed' = MapSet(redeemed, code, 0)
    /\ UNCHANGED <<now, sessionVars, req, oauthAccessToken, appLocalsAuth, tokenResp, procVars, flowVars, upVars, connVars, regVars, signVars>>

\* (a comparison of the verifier itself with the stored challenge)
PkceOkPlain(code_verifier, codeChallenge) == code_verifier = codeChallenge

\* the PKCE digest recomputed from code_verifier equals the stored challenge
PkceOk(code_verifier, codeChallenge) == S256(code_verifier) = codeChallenge

\* (a code that stays redeemable after its exchange)
MarkConsumedNot(row) == row

\* marks the code consumed
MarkConsumed(row) == [row EXCEPT !.consumed = TRUE]

\* (a failed exchange that consumes the code it was presented)
CodesAfterFailureBurnt(table, code) ==
    [k \in DOMAIN table |-> IF k = code THEN [table[k] EXCEPT !.consumed = TRUE]
                            ELSE table[k]]

\* the code table after an exchange that failed a check
CodesAfterFailure(table, code) == table

\* Token exchange (grant_type=authorization_code): look the code up, verify
\* it is unexpired and unconsumed, that redirect_uri and client_id match the
\* values recorded at issuance, and the PKCE digest; then mark the code
\* consumed and mint the paired tokens.  The lookup, checks and mark run
\* without suspension.
TokenExchange ==
    /\ Quiet
    /\ \E code \in PresentedCodes, client_id \in ClientIds,
          redirect_uri \in RedirectUris, code_verifier \in Verifiers :
         LET known == code \in DOMAIN oauthAuthorizationCode
             row == oauthAuthorizationCode[code]
             granted == /\ known
                        /\ now < row.expiresAt
                        /\ ~row.consumed
                        /\ row.redirectURI = redirect_uri
                        /\ row.clientId = client_id
                        /\ PkceOk(code_verifier, row.codeChallenge)
             asked == [NoResp EXCEPT !.code = code, !.client_id = client_id,
                                     !.redirect_uri = redirect_uri,
                                     !.code_verifier = code_verifier]
             k == Size(oauthAccessToken) + 1
         IN IF granted
            THEN /\ k <= MaxMints
                 /\ oauthAuthorizationCode' =
                      [oauthAuthorizationCode EXCEPT ![code] = MarkConsumed(row)]
                 /\ oauthAccessToken' = MintAccessToken(oauthAccessToken, client_id, now)
                 /\ redeemed' = [redeemed EXCEPT ![code] = @ + 1]
                 /\ tokenResp' = [asked EXCEPT !.status = 200,
                                               !.access_token = TokenChars(k),
                                               !.refresh_token = RefreshChars(k)]
            ELSE /\ oauthAuthorizationCode' = CodesAfterFailure(oauthAuthorizationCode, code)
                 /\ tokenResp' = [asked EXCEPT !.status = 400, !.error = "invalid_grant"]
                 /\ UNCHANGED <<oauthAccessToken, redeemed>>
    /\ UNCHANGED <<now, sessionVars, req, appLocalsAuth, procVars, flowVars, upVars, connVars, regVars, signVars>>

\* The answer went out
TokenAnswered ==
    /\ tokenResp # NoResp
    /\ tokenResp' = NoResp
    /\ UNCHANGED <<now, sessionVars, req, oauthAccessToken, appLocalsAuth,
                   oauthAuthorizationCode, redeemed, procVars, flowVars, upVars, connVars, regVars, signVars>>

(***************************************************************************)
(* SIGTERM or SIGINT: gracefulShutdown up to `await shutdownObservability()`*)
(* (clearInterval, then close and remove every entry of transports), and   *)
(* its continuation, process.exit(0).  The server keeps listening and the  *)
(* suspended handlers keep running while the await is pending.             *)
(***************************************************************************)
Signal ==
    /\ Quiet
    /\ shutdown' = "stopping"
    /\ trans' = CloseAll(trans, {transports[sid] : sid \in DOMAIN transports})
    /\ transports' = <<>>
    /\ sessionLastAccess' = Restrict(sessionLastAccess,
                                     DOMAIN sessionLastAccess \ DOMAIN transports)
    /\ lastReq' = <<>>
    /\ UNCHANGED <<now, nextId, req, oauthAccessToken, appLocalsAuth, codeVars,
                   requiredScopes, flowVars, upVars, connVars, regVars, signVars>>

Exit ==
    /\ Quiet
    /\ shutdown = "stopping"
    /\ shutdown' = "exited"
    /\ UNCHANGED <<now, sessionVars, req, oauthAccessToken, appLocalsAuth, codeVars,
                   requiredScopes, flowVars, upVars, connVars, regVars, signVars>>

(***************************************************************************)
(* requireBearerAuth(options) with any requiredScopes option, and tokens   *)
(* that were granted other scopes than the default.                        *)
(***************************************************************************)
Profile == <<"p", "r", "o", "f", "i", "l", "e">>

\* The requiredScopes a middleware can be built with
RequiredScopesOptions == {<<>>, <<OpenId>>, <<OpenId, Profile>>}

\* The scopes a token can carry: the list granted, and the scopes column
GrantSamples ==
    {[list |-> <<OpenId>>, text |-> OpenId],
     [list |-> <<Profile>>, text |-> Profile],
     [list |-> <<OpenId, Profile>>, text |-> OpenId \o <<" ">> \o Profile]}

InitScopes == InitExcept /\ requiredScopes \in RequiredScopesOptions

IssueScopedToken ==
    /\ Quiet
    /\ Size(oauthAccessToken) < MaxTokens
    /\ \E g \in GrantSamples :
         oauthAccessToken' =
           MapSet(oauthAccessToken, TokenChars(Size(oauthAccessToken) + 1),
                  [clientId |-> "c1", scopes |-> g.text,
                   expiresAt |-> now + accessTokenExpiresIn,
                   refreshToken |-> RefreshChars(Size(oauthAccessToken) + 1)])
    /\ UNCHANGED <<now, sessionVars, req, appLocalsAuth, codeVars, procVars, flowVars, upVars, connVars, regVars, signVars>>

\* A token exchange succeeded for one client more than MaxTokens counts
(***************************************************************************)
(* The authorize flow.  A user agent sends GET /api/auth/mcp/authorize (or *)
(* GET /sign-in) and follows the redirects it is answered with, sending    *)
(* the session cookie it was given.  The authorize endpoint belongs to the *)
(* mcp plugin; /sign-in is the handler of auth.ts.                         *)
(***************************************************************************)
OauthStates == {"s1", "s2"}

\* a parameter sent once with value v
Once(v) == << <<v>> >>

Queries ==
    {[client_id |-> Once(c), redirect_uri |-> Once(u), state |-> Once(st),
      code_challenge |-> Once(ch)] :
        c \in ClientIds, u \in RedirectUris, st \in OauthStates, ch \in {S256(1)}}
    \cup {[client_id |-> <<>>, redirect_uri |-> Once("u1"), state |-> Once("s1"),
           code_challenge |-> Once(S256(1))],
          \* redirect_uri= (the empty string)
          [client_id |-> Once("c1"), redirect_uri |-> << <<>> >>,
           state |-> Once("s1"), code_challenge |-> Once(S256(1))],
          \* state=s1&state=s2
          [client_id |-> Once("c1"), redirect_uri |-> Once("u1"),
           state |-> << <<"s1">>, <<"s2">> >>, code_challenge |-> Once(S256(1))]}

Repeated(query) == \E k \in DOMAIN query : Len(query[k]) > 1

\* String(array): the values joined by ","
RECURSIVE JoinComma(_)
JoinComma(values) ==
    IF Len(values) = 1 THEN values[1]
    ELSE values[1] \o <<",">> \o JoinComma(Tail(values))

\* new URLSearchParams(req.query): req.query holds a string for a parameter
\* sent once and an array for a parameter sent several times, and the
\* constructor converts each property to one string.
URLSearchParams(query) ==
    [k \in DOMAIN query |->
       IF query[k] = <<>> THEN <<>> ELSE <<JoinComma(query[k])>>]

\* (String(null) in place of null)
paramsGetNoNull(params, k) == IF params[k] = <<>> THEN <<"null">> ELSE params[k][1]

\* params.get(k): null when the parameter is missing (<<>> here, as falsy
\* as the empty string)
paramsGet(params, k) == IF params[k] = <<>> THEN <<>> ELSE params[k][1]

AgentStart ==
    /\ agent.at = "idle"
    /\ \E q \in Queries, target \in {"authorize", "sign-in"} :
         /\ Repeated(q) => target = "sign-in"
         /\ agent' = [IdleAgent EXCEPT !.at = target, !.query = q, !.orig = q,
                                       !.first = target, !.cookie = agent.cookie]
    /\ UNCHANGED <<now, sessionVars, req, oauthAccessToken, appLocalsAuth,
                   codeVars, procVars, flowVars, upVars, connVars, regVars, user, demoUserCreated, peer>>

\* (no state in the redirect)
EchoStateNot(query) == <<>>

\* the state parameter of the redirect to redirect_uri
EchoState(query) == paramsGet(query, "state")

\* The authorize endpoint: 400 without client_id or redirect_uri; to the
\* login page with the query attached when the request carries no session;
\* else a new code and the redirect to redirect_uri.
AuthorizeEndpoint ==
    /\ agent.at = "authorize"
    /\ LET q == agent.query
           clientId == paramsGet(q, "client_id")
           redirectUri == paramsGet(q, "redirect_uri")
       IN IF clientId = <<>> \/ redirectUri = <<>>
          THEN /\ agent' = [agent EXCEPT !.at = "error", !.status = 400]
               /\ UNCHANGED <<oauthAuthorizationCode, redeemed>>
          ELSE IF ~agent.cookie
          THEN /\ agent.hops < MaxHops
               /\ agent' = [agent EXCEPT !.at = "sign-in", !.status = 302,
                                         !.hops = @ + 1]
               /\ UNCHANGED <<oauthAuthorizationCode, redeemed>>
          ELSE LET code == CodeName[Size(oauthAuthorizationCode) + 1]
               IN /\ Size(oauthAuthorizationCode) < MaxCodes
                  /\ oauthAuthorizationCode' =
                       MapSet(oauthAuthorizationCode, code,
                              [clientId |-> clientId[1],
                               redirectURI |-> redirectUri[1],
                               codeChallenge |-> paramsGet(q, "code_challenge")[1],
                               expiresAt |-> now + codeExpiresIn,
                               consumed |-> FALSE])
                  /\ redeemed' = MapSet(redeemed, code, 0)
                  /\ agent' = [agent EXCEPT !.at = "callback", !.status = 302,
                                            !.location = redirectUri[1],
                                            !.code = code,
                                            !.state = EchoState(q)]
    /\ UNCHANGED <<now, sessionVars, req, oauthAccessToken, appLocalsAuth,
                   tokenResp, procVars, flowVars, upVars, connVars, regVars, user, demoUserCreated, peer>>

\* GET /sign-in up to its first await, for the request of agent a: the
\* parameter check, then ensureDemoUser, which returns at once when
\* demoUserCreated is set (the handler goes on to call signInEmail) and
\* else calls signUpEmail.
SignInRun(a) ==
    LET params == URLSearchParams(a.query)
        redirectUri == paramsGet(params, "redirect_uri")
        clientId == paramsGet(params, "client_id")
    IN IF redirectUri = <<>> \/ clientId = <<>>
       THEN [a EXCEPT !.at = "error", !.status = 400]
       ELSE IF demoUserCreated
       THEN [a EXCEPT !.at = "signInEmail"]
       ELSE [a EXCEPT !.at = "signUpEmail"]

SignIn ==
    /\ agent.at = "sign-in"
    /\ agent' = SignInRun(agent)
    /\ UNCHANGED <<now, sessionVars, req, oauthAccessToken, appLocalsAuth,
                   codeVars, procVars, flowVars, upVars, connVars, regVars, user, demoUserCreated, peer>>

\* signUpEmail looked the e-mail address up.  If it is taken the call
\* throws "User already exists", which ensureDemoUser swallows: it sets
\* demoUserCreated and the handler calls signInEmail.  Else signUpEmail
\* goes on to hash the password and insert the user.
SignUpLookedUp(a) ==
    IF user # "none" THEN [a EXCEPT !.at = "signInEmail"]
    ELSE [a EXCEPT !.at = "createUser"]

SignUpEmailLooksUp ==
    /\ agent.at = "signUpEmail"
    /\ agent' = SignUpLookedUp(agent)
    /\ demoUserCreated' = (demoUserCreated \/ user # "none")
    /\ UNCHANGED <<now, sessionVars, req, oauthAccessToken, appLocalsAuth,
                   codeVars, procVars, flowVars, upVars, connVars, regVars, user, peer>>

\* What the insert of the user row can do: it creates the row; or, the
\* e-mail address having been taken since the lookup (email is UNIQUE), it
\* fails, and signUpEmail throws an error whose message ensureDemoUser
\* matches ('already', 'exists', 'unique') or one it does not match.
CreateUserOutcomes(u) == IF u = "none" THEN {"created"} ELSE {"matched", "failed"}

\* signUpEmail settles for the request of agent a with the given outcome:
\* ensureDemoUser sets demoUserCreated and the handler calls signInEmail,
\* or ensureDemoUser rethrows and the handler's catch answers 500.
SignUpSettled(a, outcome) ==
    IF outcome = "failed" THEN [a EXCEPT !.at = "error", !.status = 500]
    ELSE [a EXCEPT !.at = "signInEmail"]

SignUpEmailSettles ==
    /\ agent.at = "createUser"
    /\ \E outcome \in CreateUserOutcomes(user) :
         /\ agent' = SignUpSettled(agent, outcome)
         /\ user' = IF outcome = "created" THEN "demo" ELSE user
         /\ demoUserCreated' = (demoUserCreated \/ outcome # "failed")
    /\ UNCHANGED <<now, sessionVars, req, oauthAccessToken, appLocalsAuth,
                   codeVars, procVars, flowVars, upVars, connVars, regVars, peer>>

\* What signInEmail({email, password: DEMO_PASSWORD}, asResponse: true) can
\* do: a Response with the session cookie when the password is the user's;
\* else a Response without cookie, or a rejection.
SignInOutcomes(u) == IF u = "demo" THEN {"session"} ELSE {"refused", "throws"}

\* signInEmail settles for the request of agent a: the handler copies the
\* Set-Cookie headers of the response and redirects to the authorize
\* endpoint with params.toString(); its catch answers 500.
SignInSettled(a, outcome) ==
    IF outcome = "throws" THEN [a EXCEPT !.at = "error", !.status = 500]
    ELSE [a EXCEPT !.at = "authorize", !.status = 302,
                   !.query = URLSearchParams(a.query),
                   !.cookie = @ \/ outcome = "session",
                   !.hops = @ + 1, !.signIns = @ + 1]

SignInEmailSettles ==
    /\ agent.at = "signInEmail"
    /\ \E outcome \in SignInOutcomes(user) :
         /\ outcome # "throws" => agent.hops < MaxHops
         /\ agent' = SignInSettled(agent, outcome)
    /\ UNCHANGED <<now, sessionVars, req, oauthAccessToken, appLocalsAuth,
                   codeVars, procVars, flowVars, upVars, connVars, regVars, user, demoUserCreated, peer>>

\* The same handler runs for the second agent, which asks for /sign-in with
\* a complete query and stops at the redirect.
PeerStart ==
    /\ peer.at = "idle"
    /\ \E q \in Queries :
         /\ ~Repeated(q)
         /\ paramsGet(q, "client_id") # <<>> /\ paramsGet(q, "redirect_uri") # <<>>
         /\ paramsGet(q, "client_id")[1] = "c2" /\ paramsGet(q, "state")[1] = "s2"
         /\ peer' = [IdleAgent EXCEPT !.at = "sign-in", !.query = q, !.orig = q,
                                      !.first = "sign-in"]
    /\ UNCHANGED <<now, sessionVars, req, oauthAccessToken, appLocalsAuth,
                   codeVars, procVars, flowVars, upVars, connVars, regVars, agent, user, demoUserCreated>>

PeerSignIn ==
    /\ peer.at = "sign-in"
    /\ peer' = SignInRun(peer)
    /\ UNCHANGED <<now, sessionVars, req, oauthAccessToken, appLocalsAuth,
                   codeVars, procVars, flowVars, upVars, connVars, regVars, agent, user, demoUserCreated>>

PeerSignUpEmailLooksUp ==
    /\ peer.at = "signUpEmail"
    /\ peer' = SignUpLookedUp(peer)
    /\ demoUserCreated' = (demoUserCreated \/ user # "none")
    /\ UNCHANGED <<now, sessionVars, req, oauthAccessToken, appLocalsAuth,
                   codeVars, procVars, flowVars, upVars, connVars, regVars, agent, user>>

PeerSignUpEmailSettles ==
    /\ peer.at = "createUser"
    /\ \E outcome \in CreateUserOutcomes(user) :
         /\ peer' = SignUpSettled(peer, outcome)
         /\ user' = IF outcome = "created" THEN "demo" ELSE user
         /\ demoUserCreated' = (demoUserCreated \/ outcome # "failed")
    /\ UNCHANGED <<now, sessionVars, req, oauthAccessToken, appLocalsAuth,
                   codeVars, procVars, flowVars, upVars, connVars, regVars, agent>>

PeerSignInEmailSettles ==
    /\ peer.at = "signInEmail"
    /\ \E outcome \in SignInOutcomes(user) :
         peer' = SignInSettled(peer, outcome)
    /\ UNCHANGED <<now, sessionVars, req, oauthAccessToken, appLocalsAuth,
                   codeVars, procVars, flowVars, upVars, connVars, regVars, agent, user, demoUserCreated>>

PeerDone ==
    /\ peer.at \in {"authorize", "error"}
    /\ peer' = IdleAgent
    /\ UNCHANGED <<now, sessionVars, req, oauthAccessToken, appLocalsAuth,
                   codeVars, procVars, flowVars, upVars, connVars, regVars, agent, user, demoUserCreated>>

\* POST /api/auth/sign-up/email (emailAndPassword is enabled) with the demo
\* e-mail address and a password of the caller's, before the demo user exists.
ForeignSignUp ==
    /\ user = "none"
    /\ user' = "other"
    /\ UNCHANGED <<now, sessionVars, req, oauthAccessToken, appLocalsAuth,
                   codeVars, procVars, flowVars, upVars, connVars, regVars, agent, demoUserCreated, peer>>

\* The user agent reached redirect_uri or an error page, or gave up
\* following redirects.
AgentDone ==
    /\ agent.at \in {"callback", "error"} \/ agent.hops = MaxHops
    /\ agent.at # "idle"
    /\ agent' = [IdleAgent EXCEPT !.cookie = agent.cookie]
    /\ UNCHANGED <<now, sessionVars, req, oauthAccessToken, appLocalsAuth,
                   codeVars, procVars, flowVars, upVars, connVars, regVars, user, demoUserCreated, peer>>

(***************************************************************************)
(* Dynamic client registration, POST /api/auth/mcp/register (the mcp       *)
(* plugin, allowDynamicClientRegistration).  A client row keeps its        *)
(* redirect URIs in one TEXT column, joined by ",".                        *)
(***************************************************************************)
GrantTypeLists == {<<>>, <<"authorization_code">>, <<"refresh_token">>,
                   <<"authorization_code", "refresh_token">>}

RedirectUriLists ==
    {<<>>} \cup {<<u>> : u \in RedirectUris}
           \cup {p \in RedirectUris \X RedirectUris : p[1] # p[2]}

RegisterBodies == [redirect_uris : RedirectUriLists, grant_types : GrantTypeLists]

\* the i-th client id the registrar generates
ClientIdName == <<"c1", "c2", "c3", "c4">>

\* redirect_uris.join(",")
JoinUris(uris) == JoinComma([i \in 1..Len(uris) |-> <<uris[i]>>])

\* redirectUrls.split(",")
RECURSIVE SplitUris(_)
SplitUris(text) ==
    IF text = <<>> THEN <<>>
    ELSE IF Len(text) = 1 THEN <<text[1]>>
    ELSE <<text[1]>> \o SplitUris(SubSeq(text, 3, Len(text)))

\* (the grant types are not looked at)
RegistrationValidUrisOnly(body) == Len(body.redirect_uris) >= 1

RegistrationValid(body) ==
    /\ Len(body.redirect_uris) >= 1
    /\ \E i \in 1..Len(body.grant_types) : body.grant_types[i] = "authorization_code"

Register ==
    /\ regResp = NoReg
    /\ \E body \in RegisterBodies :
         IF ~RegistrationValid(body)
         THEN /\ regResp' = [NoReg EXCEPT !.status = 400, !.body = body]
              /\ UNCHANGED oauthApplication
         ELSE LET clientId == ClientIdName[Size(oauthApplication) + 1]
              IN /\ Size(oauthApplication) < MaxClients
                 /\ oauthApplication' =
                      MapSet(oauthApplication, clientId,
                             [redirectUrls |-> JoinUris(body.redirect_uris),
                              type |-> "public"])
                 /\ regResp' = [status |-> 201, client_id |-> clientId,
                                redirect_uris |-> body.redirect_uris,
                                body |-> body]
    /\ UNCHANGED <<now, sessionVars, req, oauthAccessToken, appLocalsAuth,
                   codeVars, procVars, flowVars, upVars, connVars, signVars>>

\* the answer was sent
RegisterAnswered ==
    /\ regResp # NoReg
    /\ regResp' = NoReg
    /\ UNCHANGED <<now, sessionVars, req, oauthAccessToken, appLocalsAuth,
                   codeVars, procVars, flowVars, upVars, connVars, signVars, oauthApplication>>

(***************************************************************************)
(* The client of a request goes away (it closes the connection or cancels *)
(* the request) while the route handler is suspended.  No handler of /mcp  *)
(* listens for the request's or the response's close event: the handler   *)
(* runs on as it would have.                                               *)
(***************************************************************************)
\* (a close listener that closes the request's transport)
AbortCloses(r) ==
    /\ Quiet
    /\ req[r].pc \notin {"idle", "verifying", "done"}
    /\ r \notin aborted
    /\ aborted' = aborted \cup {r}
    /\ IF req[r].tr = 0
       THEN UNCHANGED sessionVars
       ELSE LET sid == trans[req[r].tr].sessionId
            IN /\ trans' = CloseAll(trans, {req[r].tr})
               /\ transports' = MapDelete(transports, sid)
               /\ sessionLastAccess' = MapDelete(sessionLastAccess, sid)
               /\ lastReq' = MapDelete(lastReq, sid)
               /\ nextId' = nextId
    /\ UNCHANGED <<now, req, oauthAccessToken, appLocalsAuth, codeVars, procVars, flowVars, upVars,
                   regVars, signVars>>

Abort(r) ==
    /\ Quiet
    /\ req[r].pc \notin {"idle", "verifying", "done"}
    /\ r \notin aborted
    /\ aborted' = aborted \cup {r}
    /\ UNCHANGED <<now, sessionVars, req, oauthAccessToken, appLocalsAuth,
                   codeVars, procVars, flowVars, upVars, regVars, signVars>>

(***************************************************************************)
(* observability.ts: the ServiceNow token cache.  fetchOAuthToken runs to  *)
(* its return or to `await fetch(...)`; the rest runs when the response    *)
(* arrived.  A tick is 60 s.                                               *)
(***************************************************************************)
\* (no margin)
TokenExpiryNoMargin(t, expires_in) == t + expires_in

\* now + (data.expires_in - 60) * 1000
TokenExpiry(t, expires_in) == t + (expires_in - REFRESH_MARGIN)

FetchStart(c) ==
    /\ calls[c].pc = "idle"
    /\ IF snowAccessToken # 0 /\ now < oauthTokenExpiry
       THEN calls' = [calls EXCEPT ![c] = [pc |-> "returned", now |-> now,
                                           token |-> snowAccessToken,
                                           cached |-> TRUE, at |-> now]]
       ELSE calls' = [calls EXCEPT ![c] = [IdleCall EXCEPT !.pc = "fetching",
                                                           !.now = now]]
    /\ UNCHANGED <<now, sessionVars, req, oauthAccessToken, appLocalsAuth, codeVars,
                   procVars, flowVars, connVars, regVars, signVars,
                   snowAccessToken, oauthTokenExpiry, issued>>

\* The response of /oauth_token.do arrived: not ok (the call throws), or a
\* new token with its expires_in.
FetchSettles(c) ==
    /\ calls[c].pc = "fetching"
    /\ \/ /\ calls' = [calls EXCEPT ![c].pc = "failed", ![c].at = now]
          /\ UNCHANGED <<snowAccessToken, oauthTokenExpiry, issued>>
       \/ \E expires_in \in 0..MaxExpiresIn :
            /\ Len(issued) < MaxUpTokens
            /\ issued' = Append(issued, [now |-> calls[c].now,
                                         expires_in |-> expires_in])
            /\ snowAccessToken' = Len(issued) + 1
            /\ oauthTokenExpiry' = TokenExpiry(calls[c].now, expires_in)
            /\ calls' = [calls EXCEPT ![c].pc = "returned",
                                      ![c].token = Len(issued) + 1,
                                      ![c].at = now]
    /\ UNCHANGED <<now, sessionVars, req, oauthAccessToken, appLocalsAuth, codeVars,
                   procVars, flowVars, connVars, regVars, signVars>>

\* the caller used what it was given
CallDone(c) ==
    /\ calls[c].pc \in {"returned", "failed"}
    /\ calls' = [calls EXCEPT ![c] = IdleCall]
    /\ UNCHANGED <<now, sessionVars, req, oauthAccessToken, appLocalsAuth, codeVars,
                   procVars, flowVars, connVars, regVars, signVars,
                   snowAccessToken, oauthTokenExpiry, issued>>

ClockTick ==
    /\ now < MaxClock
    /\ now' = now + 1
    /\ UNCHANGED <<sessionVars, req, oauthAccessToken, appLocalsAuth, codeVars,
                   procVars, flowVars, connVars, regVars, signVars, upVars>>

(***************************************************************************)
(* observability.ts: the handler of the execute_flow tool.  It triggers    *)
(* the flow and, when asked to wait and given a context_id, polls the      *)
(* flow's context every pollInterval, at most maxAttempts times.           *)
(***************************************************************************)
\* the states of a flow context the table API reports ("" for none)
FlowStates == {"", "waiting", "in_progress", "complete", "error", "cancelled"}

\* (no state ends the loop)
IsTerminalNever(state) == FALSE

\* state === 'complete' || state === 'error' || state === 'cancelled'
IsTerminal(state) == state \in {"complete", "error", "cancelled"}

\* The tool is called: requireConfig() fails, or the trigger request is sent.
FlowCall ==
    /\ flow.pc = "idle"
    /\ \E wait \in BOOLEAN, configErr \in BOOLEAN :
         flow' = IF configErr
                 THEN [IdleFlow EXCEPT !.pc = "done", !.wait_for_completion = wait,
                                       !.result = "configErr", !.isError = TRUE]
                 ELSE [IdleFlow EXCEPT !.pc = "triggering",
                                       !.wait_for_completion = wait]
    /\ UNCHANGED <<now, sessionVars, req, oauthAccessToken, appLocalsAuth, codeVars,
                   procVars, upVars, connVars, regVars, signVars>>

\* The trigger request settles: snowRequest throws, or returns an error, or
\* returns data with or without a context_id.
TriggerSettles ==
    /\ flow.pc = "triggering"
    /\ \E outcome \in {"throws", "error", "context", "other"} :
         flow' =
           CASE outcome = "throws" -> [flow EXCEPT !.pc = "rejected"]
             [] outcome = "error" ->
                  [flow EXCEPT !.pc = "done", !.result = "error", !.isError = TRUE]
             [] outcome = "context" /\ flow.wait_for_completion ->
                  [flow EXCEPT !.pc = "sleeping", !.context_id = TRUE, !.i = 0]
             [] OTHER ->
                  [flow EXCEPT !.pc = "done", !.context_id = (outcome = "context"),
                               !.result = "data"]
    /\ UNCHANGED <<now, sessionVars, req, oauthAccessToken, appLocalsAuth, codeVars,
                   procVars, upVars, connVars, regVars, signVars>>

\* setTimeout(resolve, pollInterval) fires: the poll is sent
TimerFires ==
    /\ flow.pc = "sleeping"
    /\ flow' = [flow EXCEPT !.pc = "polling",
                            !.polls = IF @ > maxAttempts THEN @ ELSE @ + 1]
    /\ UNCHANGED <<now, sessionVars, req, oauthAccessToken, appLocalsAuth, codeVars,
                   procVars, upVars, connVars, regVars, signVars>>

\* The poll settles: snowRequest throws, or returns an error, or returns the
\* context's state; the loop goes on while i + 1 < maxAttempts.
PollSettles ==
    /\ flow.pc = "polling"
    /\ \/ flow' = [flow EXCEPT !.pc = "rejected"]
       \/ flow' = [flow EXCEPT !.pc = "done", !.result = "statusError",
                               !.isError = TRUE]
       \/ \E state \in FlowStates :
            flow' = IF IsTerminal(state)
                    THEN [flow EXCEPT !.pc = "done", !.state = state,
                                      !.result = "statusData"]
                    ELSE IF flow.i + 1 < maxAttempts
                    THEN [flow EXCEPT !.pc = "sleeping", !.state = state,
                                      !.i = @ + 1]
                    ELSE [flow EXCEPT !.pc = "done", !.state = state,
                                      !.i = @ + 1, !.result = "timeout"]
    /\ UNCHANGED <<now, sessionVars, req, oauthAccessToken, appLocalsAuth, codeVars,
                   procVars, upVars, connVars, regVars, signVars>>

\* the result went to the caller
FlowReturned ==
    /\ flow.pc \in {"done", "rejected"}
    /\ flow' = IdleFlow
    /\ UNCHANGED <<now, sessionVars, req, oauthAccessToken, appLocalsAuth, codeVars,
                   procVars, upVars, connVars, regVars, signVars>>

IssueTokens ==
    /\ Quiet
    /\ Size(oauthAccessToken) < MaxTokens + 1
    /\ now + accessTokenExpiresIn <= MaxTime
    /\ \E c \in ClientIds : oauthAccessToken' = MintAccessToken(oauthAccessToken, c, now)
    /\ UNCHANGED <<now, sessionVars, req, appLocalsAuth, codeVars, procVars, flowVars, upVars, connVars, regVars, signVars>>

Next ==
    \/ \E r \in Slots : Arrive(r)
    \/ \E r \in Slots : AuthResolve(r)
    \/ \E r \in Slots : InitProgress(r)
    \/ \E r \in Slots : InitComplete(r)
    \/ \E r \in Slots : DelegateDone(r)
    \/ \E r \in Slots : DeleteHandled(r)
    \/ \E r \in Slots : Recycle(r)
    \/ TimerSweep
    \/ Tick
    \/ IssueToken

Spec == Init /\ [][Next]_vars

\* The authorization and token engine on its own
NextOAuth ==
    \/ Authorize
    \/ TokenExchange
    \/ TokenAnswered
    \/ Tick

SpecOAuth == Init /\ [][NextOAuth]_vars

\* The server with its termination signals
NextShutdown ==
    \/ \E r \in Slots : Arrive(r)
    \/ \E r \in Slots : AuthResolve(r)
    \/ \E r \in Slots : InitProgress(r)
    \/ \E r \in Slots : InitComplete(r)
    \/ \E r \in Slots : DelegateDone(r)
    \/ \E r \in Slots : DeleteHandled(r)
    \/ \E r \in Slots : Recycle(r)
    \/ TimerSweep
    \/ Tick
    \/ IssueToken
    \/ Signal
    \/ Exit

SpecShutdown == Init /\ [][NextShutdown]_vars

\* The same, with clients that go away
NextAbort ==
    \/ NextShutdown
    \/ \E r \in Slots : Abort(r)

SpecAbort == Init /\ [][NextAbort]_vars

\* The server at one instant, with clients that hold different tokens
NextTokens ==
    \/ \E r \in Slots : Arrive(r)
    \/ \E r \in Slots : AuthResolve(r)
    \/ \E r \in Slots : InitProgress(r)
    \/ \E r \in Slots : InitComplete(r)
    \/ \E r \in Slots : DelegateDone(r)
    \/ \E r \in Slots : DeleteHandled(r)
    \/ \E r \in Slots : Recycle(r)
    \/ IssueTokens

SpecTokens == Init /\ [][NextTokens]_vars

\* The server behind a middleware built with any requiredScopes
NextScopes ==
    \/ \E r \in Slots : Arrive(r)
    \/ \E r \in Slots : AuthResolve(r)
    \/ \E r \in Slots : InitProgress(r)
    \/ \E r \in Slots : InitComplete(r)
    \/ \E r \in Slots : DelegateDone(r)
    \/ \E r \in Slots : DeleteHandled(r)
    \/ \E r \in Slots : Recycle(r)
    \/ IssueScopedToken

SpecScopes == InitScopes /\ [][NextScopes]_vars

NextSignIn ==
    \/ AgentStart
    \/ AuthorizeEndpoint
    \/ SignIn
    \/ SignUpEmailLooksUp
    \/ SignUpEmailSettles
    \/ SignInEmailSettles
    \/ ForeignSignUp
    \/ AgentDone
    \/ PeerStart
    \/ PeerSignIn
    \/ PeerSignUpEmailLooksUp
    \/ PeerSignUpEmailSettles
    \/ PeerSignInEmailSettles
    \/ PeerDone

SpecSignIn == Init /\ [][NextSignIn]_vars

NextRegister ==
    \/ Register
    \/ RegisterAnswered

SpecRegister == Init /\ [][NextRegister]_vars

NextUpstream ==
    \/ \E c \in Callers : FetchStart(c)
    \/ \E c \in Callers : FetchSettles(c)
    \/ \E c \in Callers : CallDone(c)
    \/ ClockTick

SpecUpstream == Init /\ [][NextUpstream]_vars

NextFlow ==
    \/ FlowCall
    \/ TriggerSettles
    \/ TimerFires
    \/ PollSettles
    \/ FlowReturned

\* Every request settles and every timer fires.
SpecFlow ==
    /\ Init /\ [][NextFlow]_vars
    /\ WF_vars(TriggerSettles) /\ WF_vars(TimerFires) /\ WF_vars(PollSettles)

(***************************************************************************)
(* Properties of the session manager and of the bearer middleware.         *)
(***************************************************************************)
\* The step just taken was request r's pass through the middleware and, if
\* next() ran, its route handler.
JustRouted(r) == req[r].fresh /\ req[r].from = "verifying"

\* C1: the number of live sessions never exceeds MAX_SESSIONS, whatever the
\* interleaving of concurrent initialize requests.
C1_SessionCapHolds == Size(transports) <= MAX_SESSIONS

\* An initialize request on the new-session path is handled in this step:
\* it names no session, or a well-formed id that is not live.
NewSessionInit(r) ==
    /\ req[r].pc = "verifying"
    /\ req'[r].fresh /\ req'[r].handled
    /\ req'[r].method = "POST" /\ req'[r].body = "initialize"
    /\ \/ ~req'[r].sid.present
       \/ req'[r].sid.v = <<>>
       \/ isValidSessionId(req'[r].sid.v) /\ req'[r].sid.v \notin DOMAIN transports

\* C2: an initialize request that finds MAX_SESSIONS or more live sessions
\* triggers exactly one eviction sweep; it is refused with 503, building no
\* transport and registering no session, if and only if the count is still
\* at or above MAX_SESSIONS after the sweep; with MAX_SESSIONS sessions none
\* of which is idle past the TTL it is refused.
C2_CapSweepThenRefuse ==
    [][\A r \in Slots :
         NewSessionInit(r) /\ Size(transports) >= MAX_SESSIONS =>
           /\ req'[r].sweeps = 1
           /\ DOMAIN transports' =
                {s \in DOMAIN transports :
                   ~(s \in DOMAIN sessionLastAccess
                       /\ sessionLastAccess[s] < now - SESSION_TTL_MS)}
           /\ (req'[r].status = 503) <=> (Size(transports') >= MAX_SESSIONS)
           /\ req'[r].status = 503 =>
                req'[r].pc = "done" /\ req'[r].tr = 0 /\ Len(trans') = Len(trans)
           /\ req'[r].status # 503 =>
                req'[r].pc = "initializing" /\ Len(trans') = Len(trans) + 1
           /\ (\A s \in DOMAIN transports : lastReq[s] >= now - SESSION_TTL_MS)
                => req'[r].status = 503]_vars

\* An initialize request met the cap, swept once and was refused with 503.
C2_Witness ==
    \E r \in Slots :
      /\ JustRouted(r) /\ req[r].body = "initialize"
      /\ req[r].status = 503 /\ req[r].sweeps = 1
      /\ Size(transports) >= MAX_SESSIONS

\* evictStaleSessions ran in this step: on its timer, or from the cap check
SweepRan ==
    \/ TimerSweep
    \/ \E r \in Slots : req[r].pc = "verifying" /\ req'[r].fresh /\ req'[r].sweeps = 1

\* C3: after an eviction sweep at time now, no session remains whose last
\* request reached its handler before now - SESSION_TTL_MS; every session
\* the sweep removed had its transport closed; sessions that remain are
\* untouched.
C3_SweepRemovesStale ==
    [][SweepRan =>
         /\ \A s \in DOMAIN transports' : lastReq[s] >= now - SESSION_TTL_MS
         /\ \A s \in DOMAIN transports \ DOMAIN transports' :
              trans'[transports[s]].closed
         /\ \A s \in DOMAIN transports' :
              /\ s \in DOMAIN transports /\ transports'[s] = transports[s]
              /\ s \in DOMAIN sessionLastAccess =>
                   /\ s \in DOMAIN sessionLastAccess'
                   /\ sessionLastAccess'[s] = sessionLastAccess[s]]_vars

\* The Authorization header is absent or does not begin with "Bearer ".
NotBearer(h) ==
    \/ ~h.present
    \/ Len(h.v) < 7
    \/ SubSeq(h.v, 1, 7) # <<"B", "e", "a", "r", "e", "r", " ">>

C8_OnlyLiveTokensPass ==
    \A r \in Slots :
      JustRouted(r) =>
        LET token == SubSeq(req[r].auth.v, 8, Len(req[r].auth.v))
        IN IF token \in DOMAIN oauthAccessToken
              /\ now < oauthAccessToken[token].expiresAt
           THEN req[r].handled
           ELSE /\ req[r].pc = "done" /\ req[r].status = 401
                /\ req[r].www.error = "invalid_token"
                /\ ~req[r].handled

\* C9: a request answered 401 or 403 by the middleware never reached a
\* route handler and is bound to no transport, and the step that rejected
\* it left both session maps and the transports as they were.
C9_RejectedTouchesNothing ==
    [][\A r \in Slots :
         req'[r].status \in {401, 403} =>
           /\ ~req'[r].handled
           /\ req'[r].tr = 0
           /\ req'[r].from \in {"idle", "verifying"}
           /\ req[r].status \notin {401, 403} =>
                /\ transports' = transports
                /\ sessionLastAccess' = sessionLastAccess
                /\ trans' = trans]_vars

\* A request with an unknown Bearer token and sessions live was answered 401.
C9_Witness ==
    \E r \in Slots :
      /\ JustRouted(r) /\ req[r].status = 401
      /\ Size(transports) > 0

\* C10: an authenticated request whose Mcp-Session-Id header is present but
\* is not a UUID v4 is answered 400 without reaching a session.
C10_MalformedIdIs400 ==
    \A r \in Slots :
      JustRouted(r) /\ req[r].handled
        /\ req[r].sid.present /\ ~isValidSessionId(req[r].sid.v) =>
          req[r].pc = "done" /\ req[r].status = 400 /\ req[r].tr = 0

(***************************************************************************)
(* Properties of the token endpoint.                                       *)
(***************************************************************************)
\* The token endpoint answers an exchange in this step.
ExchangeStep == tokenResp = NoResp /\ tokenResp' # NoResp

C5_PkceDecidesExchange ==
    [][ExchangeStep =>
         LET a == tokenResp'
         IN a.code \in DOMAIN oauthAuthorizationCode =>
              LET row == oauthAuthorizationCode[a.code]
              IN (/\ now < row.expiresAt
                  /\ ~row.consumed
                  /\ a.client_id = row.clientId
                  /\ a.redirect_uri = row.redirectURI)
                 => (a.status = 200 <=> S256(a.code_verifier) = row.codeChallenge)]_vars

\* An exchange succeeded on the verifier whose digest is the stored challenge.
C5_Witness ==
    /\ tokenResp.status = 200
    /\ tokenResp.code \in DOMAIN oauthAuthorizationCode
    /\ S256(tokenResp.code_verifier) = oauthAuthorizationCode[tokenResp.code].codeChallenge
    /\ tokenResp.code_verifier # oauthAuthorizationCode[tokenResp.code].codeChallenge

\* C6: a token exchange that fails a check (unknown, expired or consumed
\* code, other client_id or redirect_uri than recorded, wrong verifier) is
\* answered with a 4xx OAuth error, mints no access or refresh token and
\* leaves the code table, consumed flags included, as it was.
C6_FailedExchangeLeavesNothing ==
    [][ExchangeStep =>
         LET a == tokenResp'
             known == a.code \in DOMAIN oauthAuthorizationCode
             row == oauthAuthorizationCode[a.code]
             failsCheck == \/ ~known
                           \/ now >= row.expiresAt
                           \/ row.consumed
                           \/ a.client_id # row.clientId
                           \/ a.redirect_uri # row.redirectURI
                           \/ S256(a.code_verifier) # row.codeChallenge
         IN failsCheck =>
              /\ a.status \in 400..499
              /\ a.error # ""
              /\ a.access_token = <<>> /\ a.refresh_token = <<>>
              /\ oauthAccessToken' = oauthAccessToken
              /\ oauthAuthorizationCode' = oauthAuthorizationCode]_vars

\* An unconsumed code was presented by another client: refused, and the
\* code is still unconsumed.
C6_Witness ==
    /\ tokenResp.status = 400
    /\ tokenResp.code \in DOMAIN oauthAuthorizationCode
    /\ LET row == oauthAuthorizationCode[tokenResp.code]
       IN /\ ~row.consumed
          /\ now < row.expiresAt
          /\ row.clientId # tokenResp.client_id
          /\ S256(tokenResp.code_verifier) = row.codeChallenge

(***************************************************************************)
(* Properties of the routes for sessions.                                  *)
(***************************************************************************)
\* Request r went through the middleware and its route handler in this step.
Routed(r) == req[r].pc = "verifying" /\ req'[r].fresh /\ req'[r].handled

\* C11: a POST without a session id header whose body is not an initialize
\* request is answered 400 and builds no transport and changes neither map;
\* a key enters the session map only from a transport that a POST with an
\* initialize body built.
C11_OnlyInitializeAddsSession ==
    [][/\ \A r \in Slots :
            (Routed(r) /\ req'[r].method = "POST" /\ ~req'[r].sid.present
               /\ req'[r].body # "initialize") =>
              /\ req'[r].pc = "done" /\ req'[r].status = 400 /\ req'[r].tr = 0
              /\ transports' = transports
              /\ sessionLastAccess' = sessionLastAccess
              /\ trans' = trans
       /\ \A r \in Slots :
            (req'[r].pc = "initializing" /\ req[r].pc # "initializing") =>
              /\ req'[r].method = "POST" /\ req'[r].body = "initialize"
              /\ req'[r].tr = Len(trans) + 1 /\ Len(trans') = Len(trans) + 1
       /\ \A s \in DOMAIN transports' \ DOMAIN transports :
            \E r \in Slots :
              /\ req[r].pc = "initializing" /\ req[r].method = "POST"
              /\ transports'[s] = req[r].tr]_vars

\* A POST without session id and with another body was answered 400 while
\* a session was live.
C11_Witness ==
    \E r \in Slots :
      /\ JustRouted(r) /\ req[r].handled /\ req[r].method = "POST"
      /\ ~req[r].sid.present /\ req[r].body = "other"
      /\ req[r].status = 400
      /\ Size(transports) > 0

\* C12: a well-formed session id that is not in the session map takes the
\* no-session path: GET and DELETE are answered 400, POST is answered 400
\* unless its body is an initialize request, which goes the new-session way
\* (a new transport, or 503 at the cap); the request is never handed to a
\* transport that exists, and the id gets no entry in either map.
C12_UnknownIdIsNoSession ==
    [][\A r \in Slots :
         (Routed(r) /\ req'[r].sid.present /\ isValidSessionId(req'[r].sid.v)
            /\ req'[r].sid.v \notin DOMAIN transports) =>
           /\ req'[r].pc \notin {"delegated", "streaming", "deleting"}
           /\ req'[r].tr \notin 1..Len(trans)
           /\ req'[r].sid.v \notin DOMAIN transports'
           /\ (req'[r].method \in {"GET", "DELETE"}
                 \/ req'[r].body # "initialize") =>
                /\ req'[r].pc = "done" /\ req'[r].status = 400
                /\ transports' = transports
                /\ sessionLastAccess' = sessionLastAccess
                /\ trans' = trans
           /\ (req'[r].method = "POST" /\ req'[r].body = "initialize") =>
                \/ req'[r].pc = "done" /\ req'[r].status = 503
                \/ req'[r].pc = "initializing" /\ req'[r].tr = Len(trans) + 1]_vars

\* A GET named a session that was terminated or evicted and was answered 400.
C12_Witness ==
    \E r \in Slots :
      /\ JustRouted(r) /\ req[r].handled /\ req[r].method = "GET"
      /\ req[r].status = 400
      /\ \E k \in 1..Len(trans) :
           trans[k].closed /\ req[r].sid.present /\ trans[k].sessionId = req[r].sid.v

\* C13: an authenticated POST or GET that carries the id of a live session
\* sets that session's last-access time to the current time in the handler
\* run that forwards it, and is forwarded to the transport that was
\* registered under the id when the session was initialized; no other
\* session's entry changes.
C13_LiveSessionTouchedAndForwarded ==
    [][\A r \in Slots :
         (Routed(r) /\ req'[r].method \in {"POST", "GET"}
            /\ req'[r].sid.present /\ req'[r].sid.v \in DOMAIN transports) =>
           LET s == req'[r].sid.v
           IN /\ s \in DOMAIN sessionLastAccess' /\ sessionLastAccess'[s] = now
              /\ req'[r].pc = (IF req'[r].method = "POST" THEN "delegated"
                               ELSE "streaming")
              /\ req'[r].tr = transports[s]
              /\ trans[req'[r].tr].sessionId = s /\ ~trans[req'[r].tr].closed
              /\ transports' = transports /\ trans' = trans
              /\ \A x \in DOMAIN sessionLastAccess \ {s} :
                   x \in DOMAIN sessionLastAccess'
                     /\ sessionLastAccess'[x] = sessionLastAccess[x]]_vars

\* A POST for a live session that was last accessed earlier was forwarded.
C13_Witness ==
    \E r \in Slots :
      /\ JustRouted(r) /\ req[r].pc = "delegated" /\ req[r].sid.present
      /\ req[r].sid.v \in DOMAIN sessionLastAccess
      /\ sessionLastAccess[req[r].sid.v] = now /\ now > 0
      /\ trans[req[r].tr].sessionId = req[r].sid.v

\* C14: once a DELETE for a live session has completed, the session's
\* transport is closed and its id is in neither the session map nor the
\* last-access map.
C14_DeleteRemovesSession ==
    \A r \in Slots :
      (req[r].fresh /\ req[r].pc = "done" /\ req[r].from = "deleting") =>
        LET s == trans[req[r].tr].sessionId
        IN /\ trans[req[r].tr].closed
           /\ s \notin DOMAIN transports
           /\ s \notin DOMAIN sessionLastAccess

\* C15: when the process exits after a termination signal, the session map
\* and the last-access map are empty and every transport that was
\* registered is closed.
C15_ExitLeavesNoSession ==
    shutdown = "exited" =>
      /\ transports = <<>>
      /\ sessionLastAccess = <<>>
      /\ \A k \in 1..Len(trans) : trans[k].sessionId # <<>> => trans[k].closed

\* C16: an initialize request whose transport could not be connected or
\* run is answered with a 5xx status and leaves no entry for its session in
\* the session map or the last-access map.
C16_FailedInitLeavesNoEntry ==
    \A r \in Slots :
      (req[r].fresh /\ req[r].pc = "done"
         /\ req[r].from \in {"initializing", "initResponding"}
         /\ req[r].status # 200) =>
        LET s == trans[req[r].tr].sessionId
        IN /\ req[r].status \in 500..599
           /\ s \notin DOMAIN transports
           /\ s \notin DOMAIN sessionLastAccess

\* The request's route handler ran and its handling is not finished.
Downstream(r) ==
    req[r].handled /\ req[r].pc \in {"initializing", "initResponding", "delegated",
                                     "streaming", "deleting"}

\* C17: while an authenticated request is being handled, the auth context
\* its handling finds is the one resolved from its own bearer token.
C17_AuthContextIsOwn ==
    \A r \in Slots :
      Downstream(r) =>
        LET token == SubSeq(req[r].auth.v, 8, Len(req[r].auth.v))
        IN /\ appLocalsAuth.token = token
           /\ appLocalsAuth.clientId = oauthAccessToken[token].clientId

\* C18: behind a middleware built with required scopes, a request with a
\* valid token reaches next() if and only if the scopes granted to the
\* token include every required scope; otherwise it is answered 403 with
\* error insufficient_scope and next() is not called.  Behind a middleware
\* built without required scopes no request is answered 403.
C18_ScopesDecide ==
    /\ \A r \in Slots :
         (JustRouted(r)
            /\ SubSeq(req[r].auth.v, 8, Len(req[r].auth.v)) \in DOMAIN oauthAccessToken) =>
           LET row == oauthAccessToken[SubSeq(req[r].auth.v, 8, Len(req[r].auth.v))]
               granted == (CHOOSE g \in GrantSamples : g.text = row.scopes).list
               covered == \A i \in 1..Len(requiredScopes) :
                            \E j \in 1..Len(granted) : granted[j] = requiredScopes[i]
           IN /\ covered <=> req[r].handled
              /\ covered => req[r].status \notin {401, 403}
              /\ ~covered => /\ req[r].pc = "done" /\ req[r].status = 403
                             /\ req[r].www.error = "insufficient_scope"
                             /\ req[r].tr = 0
    /\ requiredScopes = <<>> => \A r \in Slots : req[r].status # 403

\* A token granted openid alone met a middleware that requires openid and
\* profile and was answered 403.
C18_Witness ==
    \E r \in Slots :
      /\ JustRouted(r) /\ req[r].status = 403 /\ ~req[r].handled
      /\ requiredScopes = <<OpenId, Profile>>
      /\ oauthAccessToken[SubSeq(req[r].auth.v, 8, Len(req[r].auth.v))].scopes = OpenId

(***************************************************************************)
(* Properties of the authorize flow.                                       *)
(***************************************************************************)
AuthorizeIssued == agent.at = "authorize" /\ agent'.at = "callback"

\* C19: an authorize request that succeeds adds exactly one authorization
\* code, bound to the request's client_id, redirect_uri and code_challenge
\* and not yet consumed, leaves every other code as it was, and answers a
\* redirect to that redirect_uri carrying the new code and the state the
\* caller supplied, unchanged (also when the flow went through /sign-in).
C19_AuthorizeIssuesOneBoundCode ==
    [][AuthorizeIssued =>
         LET q == agent.query
             new == DOMAIN oauthAuthorizationCode' \ DOMAIN oauthAuthorizationCode
         IN /\ Cardinality(new) = 1
            /\ \A c \in DOMAIN oauthAuthorizationCode :
                 /\ c \in DOMAIN oauthAuthorizationCode'
                 /\ oauthAuthorizationCode'[c] = oauthAuthorizationCode[c]
            /\ \A c \in new :
                 /\ oauthAuthorizationCode'[c].clientId = q.client_id[1][1]
                 /\ oauthAuthorizationCode'[c].redirectURI = q.redirect_uri[1][1]
                 /\ oauthAuthorizationCode'[c].codeChallenge = q.code_challenge[1][1]
                 /\ ~oauthAuthorizationCode'[c].consumed
                 /\ agent'.code = c
            /\ agent'.status = 302
            /\ agent'.location = q.redirect_uri[1][1]
            /\ agent'.state = q.state[1]
            /\ agent.first = "authorize" =>
                 /\ agent'.state = agent.orig.state[1]
                 /\ agent'.location = agent.orig.redirect_uri[1][1]]_vars

\* A code was issued for state "s2" to an agent that came back from /sign-in.
C19_Witness ==
    /\ agent.at = "callback"
    /\ agent.first = "authorize"
    /\ agent.signIns = 1
    /\ agent.state = <<"s2">>
    /\ agent.code \in DOMAIN oauthAuthorizationCode
    /\ oauthAuthorizationCode[agent.code].redirectURI = agent.location

\* C20: an agent whose authorize request was sent to /sign-in comes back to
\* the authorize endpoint with a session and with the query it started
\* with, is never sent to /sign-in a second time, and /sign-in never
\* answers 500 on the way.
C20_SignInThenCodeIssued ==
    /\ agent.first = "authorize" => agent.status # 500
    /\ (agent.first = "authorize" /\ agent.signIns > 0) =>
          /\ agent.signIns = 1
          /\ agent.at \in {"authorize", "callback"}
          /\ agent.cookie
          /\ agent.query = agent.orig

(***************************************************************************)
(* Properties of /sign-in and of the demo user.                            *)
(***************************************************************************)
\* a parameter that is missing from the query, or sent as the empty string
MissingParam(query, k) == query[k] = <<>> \/ query[k] = << <<>> >>

\* C21: the /sign-in handler answers a request without redirect_uri or
\* without client_id with 400 in the step that receives it: it issues no
\* redirect, calls neither signUpEmail nor signInEmail, and leaves the user
\* table, demoUserCreated and the agent's cookie as they were.
C21_SignInMissingParamIs400 ==
    [][(/\ agent.at = "sign-in"
        /\ agent' # agent
        /\ MissingParam(agent.query, "redirect_uri")
             \/ MissingParam(agent.query, "client_id")) =>
         /\ agent'.at = "error"
         /\ agent'.status = 400
         /\ agent'.location = ""
         /\ agent'.hops = agent.hops
         /\ agent'.signIns = agent.signIns
         /\ agent'.cookie = agent.cookie
         /\ user' = user
         /\ demoUserCreated' = demoUserCreated]_vars

\* /sign-in answered 400 to a request with redirect_uri= (empty) before the
\* demo user existed.
C21_Witness ==
    /\ agent.at = "error"
    /\ agent.status = 400
    /\ agent.first = "sign-in"
    /\ agent.orig.redirect_uri = << <<>> >>
    /\ user = "none"
    /\ ~demoUserCreated

\* C22: once demoUserCreated is set the demo user exists (the one user row
\* of the demo e-mail address, with DEMO_PASSWORD), and no /sign-in request
\* is answered 500, whatever the interleaving of the sign-in handlers.
C22_DemoUserOnceNo500 ==
    /\ demoUserCreated => user = "demo"
    /\ agent.status # 500
    /\ peer.status # 500

(***************************************************************************)
(* Properties of the client registrar.                                     *)
(***************************************************************************)
\* C23: a registration request with at least one redirect URI and with
\* authorization_code among its grant types is answered 201 with a
\* non-empty client_id that no client had before and with the redirect
\* URIs it submitted, and the client is stored with those URIs; any other
\* request is answered 400 and the table of clients is unchanged.
C23_RegistrationDecided ==
    [][(regResp = NoReg /\ regResp' # NoReg) =>
         LET body == regResp'.body
             valid == /\ body.redirect_uris # <<>>
                      /\ "authorization_code" \in
                           {body.grant_types[i] : i \in 1..Len(body.grant_types)}
         IN /\ valid =>
                 /\ regResp'.status = 201
                 /\ regResp'.client_id # ""
                 /\ regResp'.client_id \notin DOMAIN oauthApplication
                 /\ regResp'.redirect_uris = body.redirect_uris
                 /\ DOMAIN oauthApplication' =
                      DOMAIN oauthApplication \cup {regResp'.client_id}
                 /\ SplitUris(oauthApplication'[regResp'.client_id].redirectUrls)
                      = body.redirect_uris
                 /\ \A c \in DOMAIN oauthApplication :
                      oauthApplication'[c] = oauthApplication[c]
            /\ ~valid =>
                 /\ regResp'.status = 400
                 /\ regResp'.client_id = ""
                 /\ oauthApplication' = oauthApplication]_vars

\* A second client was registered with two redirect URIs.
C23_Witness ==
    /\ regResp.status = 201
    /\ Len(regResp.body.redirect_uris) = 2
    /\ Size(oauthApplication) = 2
    /\ regResp.client_id \in DOMAIN oauthApplication

(***************************************************************************)
(* Properties of the session map.                                          *)
(***************************************************************************)
\* C24: an id that a step adds to transports is the sessionId of no
\* transport built before, live, closed or evicted: no session id is
\* registered twice.
C24_SessionIdNeverReused ==
    [][\A k \in DOMAIN transports' \ DOMAIN transports :
         /\ \A i \in DOMAIN trans : trans[i].sessionId # k
         /\ trans'[transports'[k]].sessionId = k]_vars

\* A second session is registered after the first one's transport was closed.
C24_Witness ==
    \E i, j \in DOMAIN trans :
       /\ i # j
       /\ trans[i].closed
       /\ trans[i].sessionId # <<>>
       /\ trans[j].sessionId \in DOMAIN transports
       /\ transports[trans[j].sessionId] = j

\* C25: the session ids in transports refer to different transports, and
\* each of them to the transport that carries that id as its sessionId.
C25_OneHandlerPerSession ==
    /\ \A k1, k2 \in DOMAIN transports :
         transports[k1] = transports[k2] => k1 = k2
    /\ \A k \in DOMAIN transports :
         /\ transports[k] \in DOMAIN trans
         /\ trans[transports[k]].sessionId = k

\* Two sessions are live at once.
C25_Witness ==
    /\ Size(transports) = 2
    /\ \E k1, k2 \in DOMAIN transports : transports[k1] # transports[k2]

\* C26: an id leaves transports only in a step that completes a DELETE for
\* that session, or when the session is stale (a sweep), or in a step of
\* gracefulShutdown, which is no step of a request and empties the map;
\* the step in which a client goes away changes
\* neither map and closes no transport.
C26_SessionLeavesOnlyByDeleteSweepShutdown ==
    [][/\ \A k \in DOMAIN transports \ DOMAIN transports' :
            \/ \E r \in Slots :
                 /\ req[r].pc = "deleting"
                 /\ req'[r].pc = "done"
                 /\ trans[req[r].tr].sessionId = k
            \/ k \in StaleSessions(sessionLastAccess, now)
            \/ /\ shutdown' = "stopping"
               /\ transports' = <<>>
               /\ req' = req /\ aborted' = aborted
       /\ aborted' # aborted /\ aborted \subseteq aborted' =>
            /\ transports' = transports
            /\ sessionLastAccess' = sessionLastAccess
            /\ trans' = trans]_vars

\* The client of a request for a live session went away, the request was
\* answered, and the session is still registered and open.
C26_Witness ==
    \E r \in aborted :
       /\ req[r].pc = "done"
       /\ req[r].tr # 0
       /\ trans[req[r].tr].sessionId \in DOMAIN transports
       /\ transports[trans[req[r].tr].sessionId] = req[r].tr
       /\ ~trans[req[r].tr].closed

(***************************************************************************)
(* Properties of the ServiceNow client.                                    *)
(***************************************************************************)
\* C27: fetchOAuthToken returns the cached token, without a request, exactly
\* when there is one and the time is more than the margin (60 s) before its
\* expiry, the time of its request plus its expires_in; otherwise it sends
\* a request.  A cached token it returns is not past that expiry.
C27_CachedTokenOnlyBeforeExpiry ==
    [][\A c \in Callers :
         (calls[c].pc = "idle" /\ calls'[c].pc # "idle") =>
            LET early == IF snowAccessToken = 0 THEN FALSE
                         ELSE now + REFRESH_MARGIN <
                                issued[snowAccessToken].now
                                  + issued[snowAccessToken].expires_in
            IN /\ early => /\ calls'[c].pc = "returned"
                           /\ calls'[c].cached
                           /\ calls'[c].token = snowAccessToken
                           /\ calls'[c].at < issued[snowAccessToken].now
                                               + issued[snowAccessToken].expires_in
               /\ ~early => /\ calls'[c].pc = "fetching"
                            /\ calls'[c].now = now]_vars

\* A call was given the cached token some time after it was requested.
C27_Witness ==
    \E c \in Callers :
       /\ calls[c].pc = "returned"
       /\ calls[c].cached
       /\ calls[c].at > issued[calls[c].token].now

\* C28: a call of execute_flow ends.  It polls only when wait_for_completion
\* is set and the trigger gave a context_id, and at most maxAttempts times;
\* a poll that fails ends it with an error result, a poll that reports
\* complete, error or cancelled ends it with the status payload, and the
\* maxAttempts-th poll that reports another state ends it with the
\* 'did not complete' message, which is no error.
C28_ExecuteFlowPollsAndEnds ==
    /\ [](/\ flow.polls <= maxAttempts
          /\ flow.polls > 0 => flow.wait_for_completion /\ flow.context_id
          /\ (flow.pc = "done" /\ flow.result = "timeout") =>
               flow.polls = maxAttempts /\ ~flow.isError)
    /\ [][flow.pc = "polling" =>
            /\ flow'.pc \in {"sleeping", "done", "rejected"}
            /\ flow'.polls = flow.polls
            /\ (flow'.pc = "done" /\ flow'.result = "statusError") => flow'.isError
            /\ flow'.pc = "sleeping" =>
                 flow'.state \notin {"complete", "error", "cancelled"}
                   /\ flow.polls < maxAttempts
            /\ (flow'.pc = "done" /\ flow'.result = "statusData") =>
                 flow'.state \in {"complete", "error", "cancelled"} /\ ~flow'.isError
            /\ (flow'.pc = "done" /\ flow'.result = "timeout") =>
                 flow'.state \notin {"complete", "error", "cancelled"}]_vars
    /\ (flow.pc \notin {"idle", "done", "rejected"}) ~> (flow.pc \in {"done", "rejected"})

\* All polls reported a state that is not final.
C28_Witness ==
    /\ flow.pc = "done"
    /\ flow.result = "timeout"
    /\ flow.polls = maxAttempts
    /\ flow.wait_for_completion

\* C29: while no request is in flight, transports and sessionLastAccess
\* have the same keys.
C29_MapsHaveSameKeys ==
    (\A r \in Slots : req[r].pc = "idle") =>
       DOMAIN transports = DOMAIN sessionLastAccess

\* the OAuth client of the token a request in flight presented
ClientOf(r) ==
    oauthAccessToken[SubSeq(req[r].auth.v, 8, Len(req[r].auth.v))].clientId

\* C30: a request that was handed to a session's transport presented a token
\* of the client whose initialize request, still being answered, created
\* that session.
C30_SessionServesItsClientOnly ==
    \A r1, r2 \in Slots :
      (/\ req[r1].pc = "initResponding"
       /\ req[r2].handled
       /\ req[r2].pc \in {"delegated", "streaming", "deleting"}
       /\ req[r2].tr = req[r1].tr) =>
         ClientOf(r2) = ClientOf(r1)

=============================================================================
